---------------------------- MODULE Spec2Model ----------------------------
(***************************************************************************)
(* Model of the MCV launcher (src/mcv.py): the background worker            *)
(* LauncherWorker.run, the launch button handlers of GlassLauncher, and the *)
(* files the worker reads and writes under MC_DIR.                          *)
(*                                                                          *)
(* Text is modelled as sequences of atoms (short strings), so that          *)
(* substring tests, lower-casing, JSON parsing and JSON serialisation are   *)
(* computed the way the code computes them.                                 *)
(***************************************************************************)
EXTENDS Integers, Sequences, FiniteSets, TLC

VARIABLES
    btnEnabled,       \* launch_btn.isEnabled()
    ramCombo,         \* ram_combo.currentText(), in GB
    sigQueue,         \* terminal signals queued for the GUI thread
    runsLeft,         \* launches the user will still request
    config,           \* LauncherWorker.config
    pc,               \* position of the worker inside run()
    base_version_id,  \* local of run()
    java_path,        \* local of run() (<<>> is None)
    launch_id,        \* local of run()
    cmd,              \* what get_minecraft_command was given
    calls,            \* external calls of the current run, in order
    logs,             \* log_signal emissions of the current run
    emitted,          \* finished/error signals emitted by the current run
    javaInRuntime,    \* java.exe exists under JAVA_RUNTIME_DIR
    installed,        \* get_installed_versions(MC_DIR): ids in listing order
    packDir,          \* SKIN_PACK_DIR
    tempSkin,         \* MC_DIR/temp_skin.png
    optionsFile,      \* MC_DIR/options.txt
    spawned,          \* game processes started
    regHist           \* contents of options.txt after successive registrations

vars == <<btnEnabled, ramCombo, sigQueue, runsLeft, config, pc, base_version_id,
          java_path, launch_id, cmd, calls, logs, emitted, javaInRuntime,
          installed, packDir, tempSkin, optionsFile, spawned, regHist>>

(***************************************************************************)
(* Bounds of the model.                                                     *)
(***************************************************************************)
MaxLines == 2        \* lines of an initial options.txt
MaxItems == 2        \* entries of an initial resourcePacks array
MaxRegs == 2         \* registrations applied in a row
MaxInstalled == 2    \* version directories present before a run

(***************************************************************************)
(* Sequences of atoms as strings.                                           *)
(***************************************************************************)
SeqsUpTo(S, n) == UNION { [1..k -> S] : k \in 0..n }

IsIn(x, s) == \E i \in 1..Len(s) : s[i] = x

\* s with x put in at position p.
InsertAt(s, x, p) == SubSeq(s, 1, p - 1) \o <<x>> \o SubSeq(s, p, Len(s))

\* Python's `sub in s` for strings: sub is a contiguous piece of s.
Contains(sub, s) ==
    \E i \in 0..(Len(s) - Len(sub)) :
        \A j \in 1..Len(sub) : s[i + j] = sub[j]

\* str.lower() on one atom; only the loader markers occur capitalised.
LowerAtom(a) ==
    CASE a = "Fabric" -> "fabric"
      [] a = "FABRIC" -> "fabric"
      [] a = "Forge"  -> "forge"
      [] OTHER        -> a

Lower(s) == [i \in 1..Len(s) |-> LowerAtom(s[i])]

(***************************************************************************)
(* options.txt.  A file is a list of lines as readlines() returns them: a   *)
(* line is its text (segments) and whether it ends with a newline; only the *)
(* last line of a file can lack the newline.  A segment is either some      *)
(* other setting ("fov:0.5") or the text `resourcePacks:<value>`.  A value  *)
(* is the text after the colon: its JSON shape, the string literals in it   *)
(* and whether the array is written with ", " separators.  A string literal *)
(* is a sequence of atoms; the atom EscMarker is the marker written with a  *)
(* JSON unicode escape, which json.loads decodes to MCV_SkinPack.           *)
(***************************************************************************)
Marker == "MCV_SkinPack"
EscMarker == "MCV\\u005fSkinPack"

PackEntry == <<"file/", Marker>>                  \* pack_entry
PackEscaped == <<"file/", EscMarker>>
PackOld == <<"file/", Marker, "_old">>
OtherPack == <<"other/Pack">>

RawEntries == {OtherPack, PackEntry, PackEscaped, PackOld}

\* json.loads / json.dumps on one string literal.
DecodeAtom(a) == IF a = EscMarker THEN Marker ELSE a
JsonDecodeStr(raw) == [i \in 1..Len(raw) |-> DecodeAtom(raw[i])]
JsonEncodeStr(val) == val

ListValue(items, spaced) ==
    [t |-> "list", items |-> items, spaced |-> spaced /\ Len(items) >= 2]
BadValue(t, items) == [t |-> t, items |-> items, spaced |-> FALSE]

RpSeg(v) == [k |-> "rp", name |-> "", v |-> v]
OtherSeg(n) == [k |-> "other", name |-> n, v |-> BadValue("none", <<>>)]

Line(segs, nl) == [segs |-> segs, nl |-> nl]

\* f'resourcePacks:["{pack_entry}"]\n'
FreshPackLine == Line(<<RpSeg(ListValue(<<PackEntry>>, FALSE))>>, TRUE)

MissingFile == [exists |-> FALSE, lines |-> <<>>]
File(lines) == [exists |-> TRUE, lines |-> lines]

\* line.startswith("resourcePacks:")
StartsWithKey(line) == Len(line.segs) >= 1 /\ line.segs[1].k = "rp"

\* "MCV_SkinPack" in line
MarkerInLine(line) ==
    \E i \in 1..Len(line.segs) :
        \E j \in 1..Len(line.segs[i].v.items) :
            IsIn(Marker, line.segs[i].v.items[j])

\* json.loads(line.split(":", 1)[1].strip()) followed by the membership test
\* and the append: succeeds only when the rest of the line is one JSON array.
\* Anything else raises (JSONDecodeError, AttributeError on append, TypeError
\* on `in`) and is caught by the bare except.
ParsesAsList(line) == Len(line.segs) = 1 /\ line.segs[1].v.t = "list"

ParsedContent(line) ==
    [i \in 1..Len(line.segs[1].v.items) |-> JsonDecodeStr(line.segs[1].v.items[i])]

\* f"resourcePacks:{json.dumps(content)}\n"
DumpLine(content) ==
    Line(<<RpSeg(ListValue([i \in 1..Len(content) |-> JsonEncodeStr(content[i])],
                           TRUE))>>, TRUE)

\* if pack_entry not in content: content.append(pack_entry)
AppendIfAbsent(content) ==
    IF IsIn(PackEntry, content) THEN content ELSE Append(content, PackEntry)

\* A fallback that resets the line instead of keeping it.
ParseFallback_Reset(line) == FreshPackLine

\* except: new_lines.append(line)
ParseFallback(line) == line

\* The body of `for line in lines` for one line.
PatchLine(line) ==
    IF StartsWithKey(line)
    THEN IF ~MarkerInLine(line)
         THEN IF ParsesAsList(line)
              THEN DumpLine(AppendIfAbsent(ParsedContent(line)))
              ELSE ParseFallback(line)
         ELSE line
    ELSE line

Found(lines) == \E i \in 1..Len(lines) : StartsWithKey(lines[i])

\* f.writelines(new_lines) followed by a later readlines(): the texts are
\* concatenated, so a line without a newline runs into the one after it.
RECURSIVE WriteLines(_)
WriteLines(ls) ==
    IF Len(ls) <= 1 THEN ls
    ELSE IF ls[1].nl
         THEN <<ls[1]>> \o WriteLines(Tail(ls))
         ELSE WriteLines(<<Line(ls[1].segs \o ls[2].segs, ls[2].nl)>>
                         \o Tail(Tail(ls)))

NewLines(lines) ==
    LET patched == [i \in 1..Len(lines) |-> PatchLine(lines[i])]
    IN  IF Found(lines) THEN patched ELSE Append(patched, FreshPackLine)

\* Step 6 of run(): the content of options.txt after registration.
RegisterPack(f) ==
    IF ~f.exists
    THEN File(<<FreshPackLine>>)
    ELSE File(WriteLines(NewLines(f.lines)))

(***************************************************************************)
(* Initial options files.                                                   *)
(***************************************************************************)
ListValues ==
    { ListValue(items, sp) : items \in SeqsUpTo(RawEntries, MaxItems),
                             sp \in BOOLEAN }

BadValues ==
    { BadValue("malformed", <<OtherPack>>), BadValue("malformed", <<PackEntry>>),
      BadValue("object", <<OtherPack>>), BadValue("string", <<OtherPack>>),
      BadValue("number", <<>>) }

RpSegs == { RpSeg(v) : v \in ListValues \cup BadValues }
OtherSegs == { OtherSeg(n) : n \in {"fov:0.5", "lang:en_us"} }

\* Every key of options.txt occurs at most once: some other settings, with
\* or without one resourcePacks line among them.
InitSegSeqs ==
    SeqsUpTo(OtherSegs, MaxLines)
    \cup UNION { { InsertAt(others, key, p) : key \in RpSegs,
                                              p \in 1..(Len(others) + 1) } :
                 others \in SeqsUpTo(OtherSegs, MaxLines - 1) }

\* Every line but the last ends with a newline.
InitLineSeqs ==
    { [i \in 1..Len(ss) |-> Line(<<ss[i]>>, i < Len(ss) \/ lastNl)] :
        ss \in InitSegSeqs, lastNl \in BOOLEAN }

InitFiles == {MissingFile} \cup { File(ls) : ls \in InitLineSeqs }

(***************************************************************************)
(* Version ids, configurations and the files of a fresh MC_DIR.             *)
(***************************************************************************)
Latest == <<"latest">>
V120 == <<"1.20">>
V1201 == <<"1.20", ".1">>

\* minecraft_launcher_lib.utils.get_latest_version()["release"]
LatestRelease == V1201

\* The directory names the loader installers create for a base version.
FabricId(base) == <<"fabric", "-loader-">> \o base
ForgeId(base) == base \o <<"-", "forge">>

NoPath == <<>>
JavaExe == <<"runtime/", "java.exe">>

DefaultSkinMarker == <<"DefaultEmbedded">>               \* DEFAULT_SKIN_MARKER
LegacySkinUrl == <<"https://host/", "minimal-steve", ".png">>
RemoteSkinUrl == <<"https://host/skin.png">>
LocalSkinPath == <<"C:/skins/me.png">>

\* range(2, 17) of the RAM combo box
RamMin == 2
RamMax == 16
RamChoices == RamMin..RamMax

\* "ram_gb": 4 of load_config's defaults
DefaultRam == 4

Loaders == {"Vanilla", "Fabric", "Forge"}

SkinChoices ==
    { [skin_type |-> "url", skin_path |-> DefaultSkinMarker],
      [skin_type |-> "url", skin_path |-> LegacySkinUrl],
      [skin_type |-> "url", skin_path |-> RemoteSkinUrl],
      [skin_type |-> "file", skin_path |-> LocalSkinPath] }

\* What save_config can store from the widgets.
Configs ==
    { [username |-> "MCVPlayer", version |-> v, loader |-> l, ram_gb |-> r,
       skin_type |-> s.skin_type, skin_path |-> s.skin_path] :
        v \in {Latest, V120, V1201}, l \in Loaders, r \in RamChoices,
        s \in SkinChoices }

\* save_config: ram_gb is read from the combo box, the rest from the other
\* widgets, which the user may have edited.
SavedConfigs(ram) == { c \in Configs : c.ram_gb = ram }

NoConfig ==
    [username |-> "", version |-> <<>>, loader |-> "", ram_gb |-> 0,
     skin_type |-> "", skin_path |-> <<>>]

NoCmd == [built |-> FALSE, launch_id |-> <<>>, java |-> NoPath,
          username |-> "", xmx |-> 0, xms |-> 0]

NoPack == [exists |-> FALSE, meta |-> FALSE, wide |-> "none", slim |-> "none"]
EmptyPack == [exists |-> TRUE, meta |-> TRUE, wide |-> "none", slim |-> "none"]
OldPack == [exists |-> TRUE, meta |-> TRUE, wide |-> "embedded", slim |-> "embedded"]

VersionPool ==
    { V1201, FabricId(V1201), <<"FABRIC", "-", "1.20">>, ForgeId(V1201) }

NoDup(s) == \A i, j \in 1..Len(s) : s[i] = s[j] => i = j

InitInstalled == { s \in SeqsUpTo(VersionPool, MaxInstalled) : NoDup(s) }

MainFiles ==
    { MissingFile,
      File(<<Line(<<OtherSeg("fov:0.5")>>, FALSE)>>),
      File(<<Line(<<RpSeg(ListValue(<<OtherPack>>, FALSE))>>, TRUE)>>),
      File(<<Line(<<RpSeg(BadValue("malformed", <<OtherPack>>))>>, TRUE)>>) }

(***************************************************************************)
(* Helpers of the worker.                                                   *)
(***************************************************************************)
gui == <<btnEnabled, ramCombo, runsLeft>>
fs == <<javaInRuntime, installed, packDir, tempSkin, optionsFile, spawned>>
locals == <<base_version_id, java_path, launch_id, cmd>>

Call(op, outcome, arg) == [op |-> op, outcome |-> outcome, arg |-> arg]

\* str(e) of an exception raised by an external call, and of the
\* exceptions run() raises itself.
ExcOf(op) == [src |-> op, text |-> "exception"]
Own(text) == [src |-> "run", text |-> text]

Signal(sig, msg) == [sig |-> sig, msg |-> msg]

\* An except clause that swallows the error.
Fail_Silent(msg) ==
    /\ pc' = "failed"
    /\ UNCHANGED <<emitted, sigQueue>>

\* except Exception as e: self.error_signal.emit(str(e))
Fail(msg) ==
    /\ pc' = "failed"
    /\ emitted' = Append(emitted, Signal("error", msg))
    /\ sigQueue' = Append(sigQueue, Signal("error", msg))

\* An external call raises: nothing after it in run() is executed.
Raises(op, arg) ==
    /\ calls' = Append(calls, Call(op, "raise", arg))
    /\ Fail(ExcOf(op))

Returns(op, arg) == calls' = Append(calls, Call(op, "ok", arg))

Log(msgs) == logs' = logs \o msgs

\* The comparison negated.
IsLatestAlias_Negated(v) == v # Latest

\* base_version_id == "latest"
IsLatestAlias(v) == v = Latest

\* [v["id"] for v in versions
\*    if marker in v["id"].lower() and base_version_id in v["id"]]
MatchesLoader(marker, base, id) ==
    Contains(<<marker>>, Lower(id)) /\ Contains(base, id)

LoaderVersions(marker, base, versions) ==
    SelectSeq(versions, LAMBDA id : MatchesLoader(marker, base, id))

\* The last match instead of the first.
FirstMatch_Last(matches) == matches[Len(matches)]

\* fabric_versions[0] / forge_installed_versions[0]
FirstMatch(matches) == matches[1]

\* jvmArguments: f"-Xmx{ram_gb}G", f"-Xms{min(2, int(ram_gb))}G"
Min(a, b) == IF a <= b THEN a ELSE b
Xmx(ram_gb) == ram_gb

\* max in place of min.
Xms_Max(ram_gb) == IF ram_gb >= 2 THEN ram_gb ELSE 2

Xms(ram_gb) == Min(2, ram_gb)

\* skin_path == DEFAULT_SKIN_MARKER or "minimal-steve" in skin_path
UsesEmbeddedSkin(skin_path) ==
    skin_path = DefaultSkinMarker \/ Contains(<<"minimal-steve">>, skin_path)

\* shutil.copyfile(skin_temp, .../wide/steve.png); ... /slim/alex.png
CopyToSlots(pack, image) == [pack EXCEPT !.wide = image, !.slim = image]

(***************************************************************************)
(* GlassLauncher: the launch button and the two terminal-signal slots.      *)
(***************************************************************************)
\* start_launch without launch_btn.setEnabled(False).
StartLaunch_NoDisable ==
    /\ btnEnabled
    /\ runsLeft > 0
    /\ \E cfg \in SavedConfigs(ramCombo) : config' = cfg
    /\ runsLeft' = runsLeft - 1
    /\ pc' = "resolve_version"
    /\ base_version_id' = <<>>
    /\ java_path' = NoPath
    /\ launch_id' = <<>>
    /\ cmd' = NoCmd
    /\ calls' = <<>>
    /\ logs' = <<>>
    /\ emitted' = <<>>
    /\ UNCHANGED <<btnEnabled, ramCombo, sigQueue, fs, regHist>>

StartLaunch ==
    /\ btnEnabled
    /\ runsLeft > 0
    /\ \E cfg \in SavedConfigs(ramCombo) : config' = cfg
    /\ btnEnabled' = FALSE
    /\ runsLeft' = runsLeft - 1
    /\ pc' = "resolve_version"
    /\ base_version_id' = <<>>
    /\ java_path' = NoPath
    /\ launch_id' = <<>>
    /\ cmd' = NoCmd
    /\ calls' = <<>>
    /\ logs' = <<>>
    /\ emitted' = <<>>
    /\ UNCHANGED <<ramCombo, sigQueue, fs, regHist>>

\* handle_error without launch_btn.setEnabled(True).
HandleError_NoEnable ==
    /\ sigQueue # <<>>
    /\ Head(sigQueue).sig = "error"
    /\ sigQueue' = Tail(sigQueue)
    /\ UNCHANGED <<btnEnabled, ramCombo, runsLeft, config, pc, locals, calls,
                   logs, emitted, fs, regHist>>

HandleError ==
    /\ sigQueue # <<>>
    /\ Head(sigQueue).sig = "error"
    /\ sigQueue' = Tail(sigQueue)
    /\ btnEnabled' = TRUE
    /\ UNCHANGED <<ramCombo, runsLeft, config, pc, locals, calls, logs, emitted, fs, regHist>>

LaunchComplete ==
    /\ sigQueue # <<>>
    /\ Head(sigQueue).sig = "finished"
    /\ sigQueue' = Tail(sigQueue)
    /\ btnEnabled' = TRUE
    /\ UNCHANGED <<ramCombo, runsLeft, config, pc, locals, calls, logs, emitted, fs, regHist>>

(***************************************************************************)
(* LauncherWorker.run, one action per step.                                 *)
(***************************************************************************)
\* 1. Resolve Base Version
ResolveVersion ==
    /\ pc = "resolve_version"
    /\ \/ /\ ~IsLatestAlias(config.version)
          /\ base_version_id' = config.version
          /\ pc' = "check_java"
          /\ UNCHANGED <<calls, logs, emitted, sigQueue>>
       \/ /\ IsLatestAlias(config.version)
          /\ Returns("get_latest_version", <<>>)
          /\ base_version_id' = LatestRelease
          /\ Log(<<"checking latest", "latest is">>)
          /\ pc' = "check_java"
          /\ UNCHANGED <<emitted, sigQueue>>
       \/ /\ IsLatestAlias(config.version)
          /\ Raises("get_latest_version", <<>>)
          /\ Log(<<"checking latest">>)
          /\ UNCHANGED base_version_id
    /\ UNCHANGED <<gui, config, java_path, launch_id, cmd, fs, regHist>>

\* The base-game install left out when Java is already there.
CheckJava_SkipBase ==
    /\ pc = "check_java"
    /\ IF javaInRuntime
       THEN /\ java_path' = JavaExe
            /\ Log(<<"checking java">>)
            /\ pc' = "loader"
       ELSE /\ java_path' = NoPath
            /\ Log(<<"checking java", "java not found">>)
            /\ pc' = "download_java"
    /\ UNCHANGED <<gui, sigQueue, config, base_version_id, launch_id, cmd,
                   calls, emitted, fs, regHist>>

\* 2. Check Java: the first os.walk of JAVA_RUNTIME_DIR
CheckJava ==
    /\ pc = "check_java"
    /\ IF javaInRuntime
       THEN /\ java_path' = JavaExe
            /\ Log(<<"checking java">>)
            /\ pc' = "base_install"
       ELSE /\ java_path' = NoPath
            /\ Log(<<"checking java", "java not found">>)
            /\ pc' = "download_java"
    /\ UNCHANGED <<gui, sigQueue, config, base_version_id, launch_id, cmd,
                   calls, emitted, fs, regHist>>

\* The download preceded by the rmtree of the skin pack directory.
DownloadJava_Rmtree ==
    /\ pc = "download_java"
    /\ packDir' = NoPack
    /\ \/ /\ Returns("download_java", <<>>)
          /\ Log(<<"downloading", "download done">>)
          /\ pc' = "extract_java"
          /\ UNCHANGED <<emitted, sigQueue>>
       \/ /\ Raises("download_java", <<>>)
          /\ Log(<<"downloading">>)
    /\ UNCHANGED <<gui, config, locals, javaInRuntime, installed, tempSkin,
                   optionsFile, spawned, regHist>>

\* download_with_callback(java_url, zip_path, "Java Runtime")
DownloadJava ==
    /\ pc = "download_java"
    /\ \/ /\ Returns("download_java", <<>>)
          /\ Log(<<"downloading", "download done">>)
          /\ pc' = "extract_java"
          /\ UNCHANGED <<emitted, sigQueue>>
       \/ /\ Raises("download_java", <<>>)
          /\ Log(<<"downloading">>)
    /\ UNCHANGED <<gui, config, locals, fs, regHist>>

\* The extraction without the final `if not java_path: raise`.
ExtractJava_NoCheck ==
    /\ pc = "extract_java"
    /\ Log(<<"extracting java">>)
    /\ \E hasExe \in BOOLEAN :
        /\ javaInRuntime' = hasExe
        /\ \/ /\ Returns("extract_java", <<>>)
              /\ java_path' = IF hasExe THEN JavaExe ELSE NoPath
              /\ pc' = "base_install"
              /\ UNCHANGED <<emitted, sigQueue>>
           \/ /\ Raises("extract_java", <<>>)
              /\ UNCHANGED java_path
    /\ UNCHANGED <<gui, config, base_version_id, launch_id, cmd, installed,
                   packDir, tempSkin, optionsFile, spawned, regHist>>

\* extractall, os.remove, the rescan and `if not java_path: raise`
ExtractJava ==
    /\ pc = "extract_java"
    /\ Log(<<"extracting java">>)
    /\ \E hasExe \in BOOLEAN :
        /\ javaInRuntime' = hasExe
        /\ \/ /\ Returns("extract_java", <<>>)
              /\ IF hasExe
                 THEN /\ java_path' = JavaExe
                      /\ pc' = "base_install"
                      /\ UNCHANGED <<emitted, sigQueue>>
                 ELSE /\ java_path' = NoPath
                      /\ Fail(Own("Failed to install Java."))
           \/ /\ Raises("extract_java", <<>>)
              /\ UNCHANGED java_path
    /\ UNCHANGED <<gui, config, base_version_id, launch_id, cmd, installed,
                   packDir, tempSkin, optionsFile, spawned, regHist>>

\* 3. Base Game Install
BaseInstall ==
    /\ pc = "base_install"
    /\ IF IsIn(base_version_id, installed)
       THEN /\ pc' = "loader"
            /\ UNCHANGED <<calls, logs, emitted, sigQueue, installed>>
       ELSE /\ Log(<<"installing vanilla">>)
            /\ \/ /\ Returns("install_minecraft_version", base_version_id)
                  /\ \E p \in 1..(Len(installed) + 1) :
                        installed' = InsertAt(installed, base_version_id, p)
                  /\ pc' = "loader"
                  /\ UNCHANGED <<emitted, sigQueue>>
               \/ /\ Raises("install_minecraft_version", base_version_id)
                  /\ UNCHANGED installed
    /\ UNCHANGED <<gui, config, locals, javaInRuntime, packDir, tempSkin,
                   optionsFile, spawned, regHist>>

\* 4. Mod Loader Logic: launch_id defaults to the base id; Fabric and Forge
\* scan the installed versions for an id to reuse.
ResolveLoader ==
    /\ pc = "loader"
    /\ IF config.loader = "Fabric"
       THEN LET found == LoaderVersions("fabric", base_version_id, installed)
            IN  IF found # <<>>
                THEN /\ launch_id' = FirstMatch(found)
                     /\ Log(<<"checking fabric", "fabric already installed">>)
                     /\ pc' = "skin_rebuild"
                ELSE /\ launch_id' = base_version_id
                     /\ Log(<<"checking fabric", "installing fabric">>)
                     /\ pc' = "install_fabric"
       ELSE IF config.loader = "Forge"
       THEN LET found == LoaderVersions("forge", base_version_id, installed)
            IN  IF found # <<>>
                THEN /\ launch_id' = FirstMatch(found)
                     /\ Log(<<"looking up forge", "forge already installed">>)
                     /\ pc' = "skin_rebuild"
                ELSE /\ launch_id' = base_version_id
                     /\ Log(<<"looking up forge">>)
                     /\ pc' = "find_forge"
       ELSE /\ launch_id' = base_version_id
            /\ pc' = "skin_rebuild"
            /\ UNCHANGED logs
    /\ UNCHANGED <<gui, sigQueue, config, base_version_id, java_path, cmd,
                   calls, emitted, fs, regHist>>

\* install_fabric(base_version_id, MC_DIR), the rescan and the check of it
InstallFabric ==
    /\ pc = "install_fabric"
    /\ \/ /\ Returns("install_fabric", base_version_id)
          /\ \E created \in BOOLEAN :
                installed' = IF created
                             THEN Append(installed, FabricId(base_version_id))
                             ELSE installed
          /\ LET found == LoaderVersions("fabric", base_version_id, installed')
             IN  IF found # <<>>
                 THEN /\ launch_id' = FirstMatch(found)
                      /\ Log(<<"fabric installed">>)
                      /\ pc' = "skin_rebuild"
                      /\ UNCHANGED <<emitted, sigQueue>>
                 ELSE /\ Fail(Own("Fabric install failed - could not find version ID after install."))
                      /\ UNCHANGED <<launch_id, logs>>
       \/ /\ Raises("install_fabric", base_version_id)
          /\ UNCHANGED <<installed, launch_id, logs>>
    /\ UNCHANGED <<gui, config, base_version_id, java_path, cmd, javaInRuntime,
                   packDir, tempSkin, optionsFile, spawned, regHist>>

\* find_forge_version(base_version_id) and `if forge_version is None: raise`
FindForge ==
    /\ pc = "find_forge"
    /\ \/ /\ Returns("find_forge_version", base_version_id)
          /\ \E supported \in BOOLEAN :
                IF supported
                THEN /\ Log(<<"installing forge">>)
                     /\ pc' = "install_forge"
                     /\ UNCHANGED <<emitted, sigQueue>>
                ELSE /\ Fail(Own("Forge not supported/found"))
                     /\ UNCHANGED logs
       \/ /\ Raises("find_forge_version", base_version_id)
          /\ UNCHANGED logs
    /\ UNCHANGED <<gui, config, locals, fs, regHist>>

\* install_forge_version(forge_version, MC_DIR, callback, java=java_path),
\* the rescan and the check of it
InstallForge ==
    /\ pc = "install_forge"
    /\ \/ /\ Returns("install_forge_version", java_path)
          /\ \E created \in BOOLEAN :
                installed' = IF created
                             THEN Append(installed, ForgeId(base_version_id))
                             ELSE installed
          /\ LET found == LoaderVersions("forge", base_version_id, installed')
             IN  IF found # <<>>
                 THEN /\ launch_id' = FirstMatch(found)
                      /\ Log(<<"forge ready">>)
                      /\ pc' = "skin_rebuild"
                      /\ UNCHANGED <<emitted, sigQueue>>
                 ELSE /\ Fail(Own("Forge install failed - could not find version ID after install."))
                      /\ UNCHANGED <<launch_id, logs>>
       \/ /\ Raises("install_forge_version", java_path)
          /\ UNCHANGED <<installed, launch_id, logs>>
    /\ UNCHANGED <<gui, config, base_version_id, java_path, cmd, javaInRuntime,
                   packDir, tempSkin, optionsFile, spawned, regHist>>

\* 5. Skin Logic, first half: rmtree, makedirs and pack.mcmeta.  A failure
\* leaves the old pack in place or already removed.
SkinRebuild ==
    /\ pc = "skin_rebuild"
    /\ Log(<<"generating skin pack">>)
    /\ \/ /\ Returns("rebuild_skin_pack", <<>>)
          /\ packDir' = EmptyPack
          /\ pc' = "skin_fetch"
          /\ UNCHANGED <<emitted, sigQueue>>
       \/ /\ Raises("rebuild_skin_pack", <<>>)
          /\ packDir' \in {packDir, NoPack}
    /\ UNCHANGED <<gui, config, locals, javaInRuntime, installed, tempSkin,
                   optionsFile, spawned, regHist>>

\* 5. Skin Logic, second half: the try block that fetches the skin into
\* temp_skin.png and copies it into both slots, and its except clause.
SkinFetch ==
    /\ pc = "skin_fetch"
    /\ IF config.skin_type = "url"
       THEN IF UsesEmbeddedSkin(config.skin_path)
            THEN /\ tempSkin' = "embedded"
                 /\ packDir' = CopyToSlots(packDir, tempSkin')
                 /\ Log(<<"using embedded default skin">>)
                 /\ UNCHANGED calls
            ELSE \/ /\ Returns("download_skin", config.skin_path)
                    /\ tempSkin' = "remote"
                    /\ packDir' = CopyToSlots(packDir, tempSkin')
                    /\ Log(<<"downloading", "download done">>)
                 \/ /\ calls' = Append(calls, Call("download_skin", "caught",
                                                     config.skin_path))
                    /\ tempSkin' \in {tempSkin, "partial"}
                    /\ UNCHANGED packDir
                    /\ Log(<<"downloading", "skin error">>)
       ELSE \E exists \in BOOLEAN :
                IF exists
                THEN /\ tempSkin' = "local"
                     /\ packDir' = CopyToSlots(packDir, tempSkin')
                     /\ UNCHANGED <<logs, calls>>
                ELSE /\ tempSkin' = "embedded"
                     /\ packDir' = CopyToSlots(packDir, tempSkin')
                     /\ Log(<<"local skin file missing">>)
                     /\ UNCHANGED calls
    /\ pc' = "register"
    /\ UNCHANGED <<gui, sigQueue, config, locals, emitted, javaInRuntime,
                   installed, optionsFile, spawned, regHist>>

\* 6. Auto Equip (options.txt)
RegisterStep ==
    /\ pc = "register"
    /\ Log(<<"auto-equipping">>)
    /\ \/ /\ Returns("register_pack", <<>>)
          /\ optionsFile' = RegisterPack(optionsFile)
          /\ pc' = "build_command"
          /\ UNCHANGED <<emitted, sigQueue>>
       \/ /\ Raises("register_pack", <<>>)
          /\ UNCHANGED optionsFile
    /\ UNCHANGED <<gui, config, locals, javaInRuntime, installed, packDir,
                   tempSkin, spawned, regHist>>

\* 7. Launch: the options dict and get_minecraft_command
BuildCommand ==
    /\ pc = "build_command"
    /\ Log(<<"launching version">>)
    /\ \/ /\ Returns("get_minecraft_command", launch_id)
          /\ cmd' = [built |-> TRUE, launch_id |-> launch_id,
                     java |-> java_path, username |-> config.username,
                     xmx |-> Xmx(config.ram_gb), xms |-> Xms(config.ram_gb)]
          /\ pc' = "spawn"
          /\ UNCHANGED <<emitted, sigQueue>>
       \/ /\ Raises("get_minecraft_command", launch_id)
          /\ UNCHANGED cmd
    /\ UNCHANGED <<gui, config, base_version_id, java_path, launch_id, fs, regHist>>

\* finished_signal emitted without the Popen call.
Spawn_EmitOnly ==
    /\ pc = "spawn"
    /\ Log(<<"go">>)
    /\ emitted' = Append(emitted, Signal("finished", Own("")))
    /\ sigQueue' = Append(sigQueue, Signal("finished", Own("")))
    /\ pc' = "done"
    /\ UNCHANGED <<gui, config, locals, calls, fs, regHist>>

\* subprocess.Popen(cmd)
Spawn ==
    /\ pc = "spawn"
    /\ Log(<<"go">>)
    /\ \/ /\ Returns("Popen", launch_id)
          /\ spawned' = spawned + 1
          /\ pc' = "emit_finished"
          /\ UNCHANGED <<emitted, sigQueue>>
       \/ /\ Raises("Popen", launch_id)
          /\ UNCHANGED spawned
    /\ UNCHANGED <<gui, config, locals, javaInRuntime, installed, packDir,
                   tempSkin, optionsFile, regHist>>

\* self.finished_signal.emit()
EmitFinished ==
    /\ pc = "emit_finished"
    /\ emitted' = Append(emitted, Signal("finished", Own("")))
    /\ sigQueue' = Append(sigQueue, Signal("finished", Own("")))
    /\ pc' = "done"
    /\ UNCHANGED <<gui, config, locals, calls, logs, fs, regHist>>

(***************************************************************************)
(* The launcher: a fresh window over some MC_DIR, one launch.               *)
(***************************************************************************)
Idle ==
    /\ btnEnabled = TRUE
    /\ sigQueue = <<>>
    /\ config = NoConfig
    /\ pc = "idle"
    /\ base_version_id = <<>>
    /\ java_path = NoPath
    /\ launch_id = <<>>
    /\ cmd = NoCmd
    /\ calls = <<>>
    /\ logs = <<>>
    /\ emitted = <<>>
    /\ spawned = 0
    /\ tempSkin = "none"

Init ==
    /\ Idle
    /\ runsLeft = 1
    /\ ramCombo = DefaultRam
    /\ javaInRuntime \in BOOLEAN
    /\ installed \in InitInstalled
    /\ packDir \in {NoPack, OldPack}
    /\ optionsFile \in MainFiles
    /\ regHist = <<>>

Worker ==
    \/ ResolveVersion \/ CheckJava \/ DownloadJava \/ ExtractJava
    \/ BaseInstall \/ ResolveLoader \/ InstallFabric \/ FindForge
    \/ InstallForge \/ SkinRebuild \/ SkinFetch \/ RegisterStep
    \/ BuildCommand \/ Spawn \/ EmitFinished

Next == StartLaunch \/ HandleError \/ LaunchComplete \/ Worker

Spec == Init /\ [][Next]_vars

(***************************************************************************)
(* The first launch over a fresh MC_DIR (only the directories the module    *)
(* creates on import), with the RAM combo box at any of its items.          *)
(***************************************************************************)
InitFresh ==
    /\ Idle
    /\ runsLeft = 1
    /\ ramCombo \in RamChoices
    /\ javaInRuntime = FALSE
    /\ installed = <<>>
    /\ packDir = NoPack
    /\ optionsFile = MissingFile
    /\ regHist = <<>>

SpecFresh == InitFresh /\ [][Next]_vars

(***************************************************************************)
(* Two launches in a row over a fresh MC_DIR: the second click comes after  *)
(* the first run, over whatever files that run left behind.                 *)
(***************************************************************************)
InitRelaunch ==
    /\ Idle
    /\ runsLeft = 2
    /\ ramCombo = DefaultRam
    /\ javaInRuntime = FALSE
    /\ installed = <<>>
    /\ packDir = NoPack
    /\ optionsFile = MissingFile
    /\ regHist = <<>>

SpecRelaunch == InitRelaunch /\ [][Next]_vars

(***************************************************************************)
(* The same two launches with the scheduling the program runs under: the    *)
(* worker thread keeps running (every external call returns or raises) and  *)
(* the GUI event loop delivers every queued signal to its slot.  Nothing    *)
(* makes the user click.                                                    *)
(***************************************************************************)
SpecLive ==
    /\ InitRelaunch
    /\ [][Next]_vars
    /\ WF_vars(Worker)
    /\ WF_vars(HandleError)
    /\ WF_vars(LaunchComplete)

(***************************************************************************)
(* Registration alone: the worker stands at step 6 over any options.txt,    *)
(* and the step is applied again and again, as successive launches do.      *)
(***************************************************************************)
InitReg ==
    /\ btnEnabled = FALSE
    /\ ramCombo = RamMin
    /\ sigQueue = <<>>
    /\ runsLeft = 0
    /\ config \in { c \in Configs : c.version = V1201 /\ c.loader = "Vanilla"
                                    /\ c.ram_gb = RamMin
                                    /\ c.skin_path = DefaultSkinMarker }
    /\ pc = "register"
    /\ base_version_id = V1201
    /\ java_path = JavaExe
    /\ launch_id = V1201
    /\ cmd = NoCmd
    /\ calls = <<>>
    /\ logs = <<>>
    /\ emitted = <<>>
    /\ spawned = 0
    /\ tempSkin = "embedded"
    /\ javaInRuntime = TRUE
    /\ installed = <<V1201>>
    /\ packDir = OldPack
    /\ optionsFile \in InitFiles
    /\ regHist = <<optionsFile>>

Registration ==
    /\ pc = "register"
    /\ Len(regHist) <= MaxRegs
    /\ optionsFile' = RegisterPack(optionsFile)
    /\ regHist' = Append(regHist, optionsFile')
    /\ UNCHANGED <<gui, sigQueue, config, pc, locals, calls, logs, emitted,
                   javaInRuntime, installed, packDir, tempSkin, spawned>>

NextReg == Registration

SpecReg == InitReg /\ [][NextReg]_vars

(***************************************************************************)
(* Properties.                                                              *)
(***************************************************************************)
Last(s) == s[Len(s)]

RECURSIVE IsSubseq(_, _)
IsSubseq(a, b) ==
    IF a = <<>> THEN TRUE
    ELSE IF b = <<>> THEN FALSE
    ELSE IF a[1] = b[1] THEN IsSubseq(Tail(a), Tail(b))
    ELSE IsSubseq(a, Tail(b))

HasSignal(sigs, sig) == \E i \in 1..Len(sigs) : sigs[i].sig = sig
Called(op) == \E i \in 1..Len(calls) : calls[i].op = op

OwnMessages ==
    { "Failed to install Java.",
      "Fabric install failed - could not find version ID after install.",
      "Forge not supported/found",
      "Forge install failed - could not find version ID after install." }

\* C1, state part: a failed run has emitted exactly one signal, the error
\* carrying the message of what raised; the raising call is the last call of
\* the run; a run that has not failed has emitted no error.
C1_State ==
    /\ \A i \in 1..Len(calls) : calls[i].outcome = "raise" => i = Len(calls)
    /\ pc = "failed" =>
          /\ Len(emitted) = 1
          /\ emitted[1].sig = "error"
          /\ IF calls # <<>> /\ Last(calls).outcome = "raise"
             THEN emitted[1].msg = ExcOf(Last(calls).op)
             ELSE emitted[1].msg.src = "run" /\ emitted[1].msg.text \in OwnMessages
    /\ pc # "failed" =>
          /\ ~HasSignal(emitted, "error")
          /\ \A i \in 1..Len(calls) : calls[i].outcome # "raise"

\* C1, step part: once a run has failed, the worker does nothing more: no
\* call, no log, no signal, no change to any file.
C1_Step ==
    pc = "failed" =>
        \/ UNCHANGED <<pc, config, locals, calls, logs, emitted, fs>>
        \/ pc' = "resolve_version"

\* C1: if a fatal step raises, no later step is executed, error_signal is
\* emitted exactly once with that error's message, and finished_signal is
\* never emitted in that run.
C1_FatalAborts == []C1_State /\ [][C1_Step]_vars

C1_Witness ==
    /\ pc = "failed"
    /\ calls # <<>>
    /\ Last(calls) = Call("Popen", "raise", launch_id)
    /\ emitted = <<Signal("error", ExcOf("Popen"))>>
    /\ optionsFile = RegisterPack(MissingFile)

\* C2: success is reported only in runs where Popen has already returned:
\* whenever finished_signal has been emitted, the last call of the run is a
\* Popen that returned and a process has been spawned.
C2_SuccessAfterSpawn ==
    (HasSignal(emitted, "finished") \/ pc = "done") =>
        /\ calls # <<>>
        /\ Last(calls).op = "Popen"
        /\ Last(calls).outcome = "ok"
        /\ spawned >= 1
        /\ cmd.built

C2_Witness ==
    /\ pc = "done"
    /\ emitted = <<Signal("finished", Own(""))>>
    /\ spawned = 1

Before(i) == regHist[i]
After(i) == regHist[i + 1]
RegPairs == 1..(Len(regHist) - 1)

\* C3: registering twice yields the same options-file content as
\* registering once, for every initial options file.
C3_Idempotent == Len(regHist) >= 3 => regHist[3] = regHist[2]

KeyLines(f) == SelectSeq(f.lines, StartsWithKey)
OtherTexts(f) ==
    LET others == SelectSeq(f.lines, LAMBDA l : ~StartsWithKey(l))
    IN  [i \in 1..Len(others) |-> others[i].segs]
ListsOf(f) ==
    LET ls == SelectSeq(KeyLines(f), ParsesAsList)
    IN  [i \in 1..Len(ls) |-> ParsedContent(ls[i])]

\* C4: registration never removes, alters or reorders an entry of the
\* resource-pack list, and every other line is present afterwards with the
\* same content and in the same relative order.
C4_Preserves ==
    \A i \in RegPairs :
        /\ IsSubseq(OtherTexts(Before(i)), OtherTexts(After(i)))
        /\ \A k \in 1..Len(ListsOf(Before(i))) :
              /\ k <= Len(ListsOf(After(i)))
              /\ IsSubseq(ListsOf(Before(i))[k], ListsOf(After(i))[k])

AfterSkinPcs == {"register", "build_command", "spawn", "emit_finished", "done"}
AfterSkin ==
    \/ pc \in AfterSkinPcs
    \/ pc = "failed" /\ calls # <<>>
       /\ Last(calls).op \in {"register_pack", "get_minecraft_command", "Popen"}

ValidImages == {"embedded", "local", "remote"}
SkinDownloadFailed == \E i \in 1..Len(calls) : calls[i] = Call("download_skin", "caught", config.skin_path)

\* C5: after the skin step both texture slots hold the same valid image,
\* for every skin source; when the remote download fails, a warning is
\* logged, the embedded default is used, and the launch continues.
C5_SkinSlots ==
    AfterSkin =>
        /\ packDir.wide = packDir.slim
        /\ packDir.wide \in ValidImages
        /\ SkinDownloadFailed => packDir.wide = "embedded" /\ IsIn("skin error", logs)
        /\ IsIn("local skin file missing", logs) => packDir.wide = "embedded"

\* C6: after registration of a file that is missing, has no resourcePacks
\* line, or has one whose value is a JSON array, the file has a
\* resourcePacks line whose array contains the pack id: appended after the
\* existing entries when it was not an element, alone when the key was
\* absent.
C6_Registers ==
    (Len(regHist) >= 2 /\ Len(ListsOf(Before(1))) = Len(KeyLines(Before(1)))) =>
        /\ Len(ListsOf(After(1))) = 1
        /\ IsIn(PackEntry, ListsOf(After(1))[1])
        /\ IF KeyLines(Before(1)) = <<>>
           THEN ListsOf(After(1))[1] = <<PackEntry>>
           ELSE ListsOf(After(1))[1] =
                    IF IsIn(PackEntry, ListsOf(Before(1))[1])
                    THEN ListsOf(Before(1))[1]
                    ELSE Append(ListsOf(Before(1))[1], PackEntry)

Unparseable(line) == StartsWithKey(line) /\ ~ParsesAsList(line)

C8_NoLatestQuery ==
    (pc # "idle" /\ config.version # Latest) =>
        /\ ~Called("get_latest_version")
        /\ pc # "resolve_version" => base_version_id = config.version

C8_Witness ==
    /\ pc = "failed"
    /\ config.version = V120
    /\ config.loader = "Forge"
    /\ Called("install_forge_version")
    /\ base_version_id = V120

\* C9: for every configured RAM r in 2..16 the command is built with
\* -Xms = min(2, r) and -Xmx = r, so initial heap <= max heap <= RAM.
C9_HeapFlags ==
    cmd.built =>
        /\ config.ram_gb \in 2..16
        /\ cmd.xms = (IF config.ram_gb < 2 THEN config.ram_gb ELSE 2)
        /\ cmd.xmx = config.ram_gb
        /\ cmd.xms <= cmd.xmx
        /\ cmd.xmx <= config.ram_gb

C9_Witness ==
    /\ cmd.built
    /\ config.ram_gb = 16
    /\ cmd.xms = 2
    /\ cmd.xmx = 16
    /\ pc = "done"

IsLoaderRun == pc # "idle" /\ config.loader \in {"Fabric", "Forge"}
LoaderMarker == IF config.loader = "Fabric" THEN "fabric" ELSE "forge"
InstallerOps == {"install_fabric", "find_forge_version", "install_forge_version"}
InstallerCalledIn(cs) == \E i \in 1..Len(cs) : cs[i].op \in InstallerOps
Reusable ==
    SelectSeq(installed,
              LAMBDA id : /\ \E n \in 1..Len(id) : LowerAtom(id[n]) = LoaderMarker
                          /\ Contains(base_version_id, id))

C10_Step ==
    IsLoaderRun =>
        /\ (pc = "loader" /\ Reusable # <<>>) =>
              /\ launch_id' = Reusable[1]
              /\ pc' = "skin_rebuild"
              /\ UNCHANGED <<calls, installed>>
        /\ (InstallerCalledIn(calls') /\ ~InstallerCalledIn(calls)) => Reusable = <<>>
        /\ (cmd'.built /\ ~cmd.built /\ ~InstallerCalledIn(calls)) =>
              /\ Reusable # <<>>
              /\ cmd'.launch_id = Reusable[1]

\* C10: for Fabric and Forge alike, when an installed id contains the
\* loader marker (case-insensitively) and the base id, the run reuses the
\* first such id as the launch id given to the command builder and never
\* invokes the loader installer; the installer is invoked only when no
\* installed id matches.
C10_ReuseInstalledLoader == [][C10_Step]_vars

C10_Witness ==
    /\ pc = "done"
    /\ config.loader = "Fabric"
    /\ config.version = V120
    /\ installed = <<V120, <<"FABRIC", "-", "1.20">>, FabricId(V1201)>>
    /\ cmd.launch_id = <<"FABRIC", "-", "1.20">>
    /\ ~InstallerCalledIn(calls)

(***************************************************************************)
(* Order of the steps.  A stage is one numbered section of run(); the       *)
(* stage of a call is the section that makes it, the stage of the worker    *)
(* is the section it stands in.                                             *)
(***************************************************************************)
CallStage(op) ==
    CASE op = "get_latest_version" -> 1
      [] op \in {"download_java", "extract_java"} -> 2
      [] op = "install_minecraft_version" -> 3
      [] op \in InstallerOps -> 4
      [] op \in {"rebuild_skin_pack", "download_skin"} -> 5
      [] op = "register_pack" -> 6
      [] op \in {"get_minecraft_command", "Popen"} -> 7

PcStage(p) ==
    CASE p = "idle" -> 0
      [] p = "resolve_version" -> 1
      [] p \in {"check_java", "download_java", "extract_java"} -> 2
      [] p = "base_install" -> 3
      [] p \in {"loader", "install_fabric", "find_forge", "install_forge"} -> 4
      [] p \in {"skin_rebuild", "skin_fetch"} -> 5
      [] p = "register" -> 6
      [] p \in {"build_command", "spawn", "emit_finished"} -> 7
      [] p \in {"done", "failed"} -> 8

\* The order of the states as the claim gives it: Java resolution first,
\* then version resolution (latest-release query and base-game install).
ClaimedStage(op) ==
    CASE op \in {"download_java", "extract_java"} -> 1
      [] op \in {"get_latest_version", "install_minecraft_version"} -> 2
      [] OTHER -> CallStage(op)

\* C11 as claimed: Java resolution has completed before any step of version
\* resolution (the latest-release query included) begins, and the calls of
\* a run follow the order Java, version, loader, skin pack, registration,
\* launch.
C11_ClaimedOrder ==
    /\ Called("get_latest_version") => java_path # NoPath
    /\ \A i, j \in 1..Len(calls) :
          i < j => ClaimedStage(calls[i].op) <= ClaimedStage(calls[j].op)

C11_State ==
    /\ \A i, j \in 1..Len(calls) :
          i < j => CallStage(calls[i].op) <= CallStage(calls[j].op)
    /\ \A i \in 1..Len(calls) : CallStage(calls[i].op) <= PcStage(pc)
    /\ Called("get_latest_version") => IsLatestAlias(config.version)
    /\ PcStage(pc) \in 2..7 => base_version_id # <<>>
    /\ PcStage(pc) \in 3..7 => java_path # NoPath
    /\ PcStage(pc) \in 4..7 => IsIn(base_version_id, installed)
    /\ PcStage(pc) \in 5..7 => launch_id # <<>>
    /\ PcStage(pc) \in 6..7 => Called("rebuild_skin_pack")
    /\ PcStage(pc) = 7 => Called("register_pack")
    /\ pc = "done" => Called("Popen")

C11_Step ==
    \/ pc' = "resolve_version"
    \/ /\ PcStage(pc') >= PcStage(pc)
       /\ pc' # "failed" => PcStage(pc') <= PcStage(pc) + 1

\* C11 (amended): every run passes through the steps in the order of
\* run(): version alias resolution (the latest-release query), Java
\* resolution, base-game install, loader resolution, skin-pack build, pack
\* registration, launch; no stage is skipped and none begins before the
\* stage before it has completed.
C11_CodeOrder == []C11_State /\ [][C11_Step]_vars

C11_Witness ==
    /\ pc = "done"
    /\ [i \in 1..Len(calls) |-> calls[i].op] =
          <<"get_latest_version", "download_java", "extract_java",
            "install_minecraft_version", "install_fabric", "rebuild_skin_pack",
            "download_skin", "register_pack", "get_minecraft_command", "Popen">>

(***************************************************************************)
(* C12                                                                      *)
(***************************************************************************)
\* The worker thread is inside run(): started and no terminal signal emitted.
Running == pc \notin {"idle", "done", "failed"}

\* A terminal signal is emitted but its slot has not run yet.
Undelivered == sigQueue # <<>>

C12_State ==
    /\ (Running \/ Undelivered) => ~btnEnabled
    /\ Running => ~Undelivered
    /\ Len(sigQueue) <= 1

\* A step that starts a worker (start_launch) is taken only while no run is
\* executing and no terminal signal is waiting for its slot.
C12_Step == runsLeft' # runsLeft => (btnEnabled /\ ~Running /\ ~Undelivered)

\* C12: at most one run executes at any time: from start_launch until the
\* worker has emitted its terminal signal and the GUI slot has handled it, the
\* launch button is disabled and no second worker is started, whatever the
\* interleaving of clicks, worker steps and queued signal deliveries.
C12_OneRunAtATime == []C12_State /\ [][C12_Step]_vars

\* The second run is about to spawn the game the first run already spawned.
C12_Witness == runsLeft = 0 /\ pc = "spawn" /\ spawned = 1 /\ ~btnEnabled

(***************************************************************************)
(* C13                                                                      *)
(***************************************************************************)
\* The calls that need the runtime: base-game install, loader installers,
\* command construction.
NeedsJava == {"install_minecraft_version", "get_minecraft_command"} \cup InstallerOps

AfterJavaPcs ==
    {"base_install", "loader", "install_fabric", "find_forge", "install_forge",
     "skin_rebuild", "skin_fetch", "register", "build_command", "spawn",
     "emit_finished", "done"}

BootstrapError == Signal("error", Own("Failed to install Java."))

C13_State ==
    /\ pc \in AfterJavaPcs => (java_path = JavaExe /\ javaInRuntime)
    /\ \A i \in 1..Len(calls) :
          /\ calls[i].op \in NeedsJava => (java_path = JavaExe /\ javaInRuntime)
          /\ calls[i].op = "install_forge_version" => calls[i].arg = JavaExe
    /\ cmd.built => cmd.java = JavaExe
    /\ (calls # <<>> /\ Last(calls) = Call("extract_java", "ok", <<>>) /\ ~javaInRuntime)
          => (pc = "failed" /\ emitted = <<BootstrapError>>)

\* The download starts only from a scan that found nothing.
C13_Step ==
    (Len(calls') = Len(calls) + 1 /\ Last(calls').op = "download_java")
        => (~javaInRuntime /\ java_path = NoPath /\ Last(logs) = "java not found")

\* C13: the JDK archive is downloaded only when the first scan of the runtime
\* directory finds no java executable; when the rescan after download and
\* extraction finds none either the run fails with "Failed to install Java.";
\* base-game install, loader install and command construction are reached
\* only with the path of an executable found under the runtime directory.
C13_JavaBeforeUse == []C13_State /\ [][C13_Step]_vars

\* A Forge launch that had to download the runtime and handed it on.
C13_Witness ==
    /\ pc = "done"
    /\ Called("download_java")
    /\ \E i \in 1..Len(calls) :
          calls[i] = Call("install_forge_version", "ok", JavaExe)
    /\ cmd.java = JavaExe

(***************************************************************************)
(* C14                                                                      *)
(***************************************************************************)
\* The positions of run() before '# 5. Skin Logic'.
PreSkinPcs ==
    {"resolve_version", "check_java", "download_java", "extract_java",
     "base_install", "loader", "install_fabric", "find_forge", "install_forge"}

PreSkinOps ==
    {"get_latest_version", "download_java", "extract_java",
     "install_minecraft_version"} \cup InstallerOps

\* The run failed and never came to the skin step.
FailedBeforeSkin == pc = "failed" /\ ~Called("rebuild_skin_pack")

C14_State ==
    /\ FailedBeforeSkin =>
          /\ \A i \in 1..Len(calls) : calls[i].op \in PreSkinOps
          /\ regHist = <<>>
          /\ tempSkin = "none"
    /\ (pc \in PreSkinPcs /\ runsLeft = 0) => ~Called("rebuild_skin_pack")

\* From the click up to the skin step, and after a failure, no step writes
\* the skin pack directory or the options file.
C14_Step ==
    (pc \in PreSkinPcs \cup {"idle", "failed"} \/ FailedBeforeSkin')
        => UNCHANGED <<packDir, optionsFile>>

\* C14: a run that fails before the skin step (latest-release query, Java
\* bootstrap, base install, loader lookup or install) leaves the skin pack
\* directory and the options file exactly as they were before the run.
C14_FailureLeavesPack == []C14_State /\ [][C14_Step]_vars

\* The Forge installer raised over an MC_DIR that held a pack and options.
C14_Witness ==
    /\ FailedBeforeSkin
    /\ Last(calls) = Call("install_forge_version", "raise", JavaExe)
    /\ packDir = OldPack
    /\ optionsFile # MissingFile

(***************************************************************************)
(* C15                                                                      *)
(***************************************************************************)
Terminated == pc \in {"done", "failed"}

\* A running worker has emitted no terminal signal, a terminated one exactly
\* one: finished after the last statement of run(), error from the except.
C15_State ==
    /\ Running => emitted = <<>>
    /\ pc = "done" => (Len(emitted) = 1 /\ emitted[1].sig = "finished")
    /\ pc = "failed" => (Len(emitted) = 1 /\ emitted[1].sig = "error")

\* C15: provided every external call returns or raises, every launch request
\* terminates with exactly one terminal signal, finished or error, never both
\* and never neither, and the launch button is enabled again afterwards.
C15_Terminates ==
    /\ []C15_State
    /\ Running ~> (Terminated /\ Len(emitted) = 1)
    /\ ~btnEnabled ~> btnEnabled

\* The second request failed, its error was delivered, the button is back.
C15_Witness ==
    /\ runsLeft = 0
    /\ pc = "failed"
    /\ sigQueue = <<>>
    /\ btnEnabled
    /\ Len(emitted) = 1
    /\ spawned = 1

====
